---- MODULE Spec2Model ----
(***************************************************************************)
(* Model of the task tracker's TaskManager (src/src/services/TaskManager.ts, *)
(* the later revision at lines 171-346) and of the Task record              *)
(* (src/src/models/Task.ts), with the backing file tasks.json.              *)
(*                                                                         *)
(* Strings that the code inspects character by character (ids) are         *)
(* sequences of one-character strings; optional values are records          *)
(* [has, v]; JavaScript numbers that may be NaN are records [nan, val].     *)
(***************************************************************************)
EXTENDS Integers, Sequences, FiniteSets

VARIABLES file, tasks, nextId, last, minted, removed, saved, nops, nfail, loaded,
          prev, everRemoved, other, failed

vars == <<file, tasks, nextId, last, minted, removed, saved, nops, nfail, loaded,
          prev, everRemoved, other, failed>>

(* ------------------------------ bounds -------------------------------- *)

\* most operations issued after construction in one behaviour
MaxOps == 2

\* most writes that fail (fs.writeFileSync throwing) in one behaviour
MaxFailures == 1

(* ------------------------- JavaScript values --------------------------- *)

\* an optional value: present with a value, or absent (undefined)
Some(x) == [has |-> TRUE, v |-> x]

NoString == [has |-> FALSE, v |-> ""]

NoId == [has |-> FALSE, v |-> <<>>]

NoBool == [has |-> FALSE, v |-> FALSE]

NoDate == [has |-> FALSE, v |-> 0]

\* a JavaScript number: an integer or NaN
Num(n) == [nan |-> FALSE, val |-> n]

NaN == [nan |-> TRUE, val |-> 0]

Digits == <<"0", "1", "2", "3", "4", "5", "6", "7", "8", "9">>

IsDigit(c) == \E i \in 1..10 : Digits[i] = c

DigitVal(c) == (CHOOSE i \in 1..10 : Digits[i] = c) - 1

\* Number.prototype.toString on a non-negative integer
RECURSIVE ToString(_)
ToString(n) ==
  IF n < 10 THEN <<Digits[n + 1]>>
  ELSE ToString(n \div 10) \o <<Digits[(n % 10) + 1]>>

RECURSIVE StripWs(_)
StripWs(s) == IF s # <<>> /\ s[1] = " " THEN StripWs(Tail(s)) ELSE s

RECURSIVE ParseDigits(_, _)
ParseDigits(s, acc) ==
  IF s = <<>> \/ ~IsDigit(s[1]) THEN acc
  ELSE ParseDigits(Tail(s), acc * 10 + DigitVal(s[1]))

\* parseInt(s, 10): leading blanks, an optional sign, then the longest run of
\* digits; NaN when there is no digit
ParseInt(s) ==
  LET t == StripWs(s)
      neg == t # <<>> /\ t[1] = "-"
      u == IF t # <<>> /\ t[1] \in {"-", "+"} THEN Tail(t) ELSE t
  IN IF u = <<>> \/ ~IsDigit(u[1]) THEN NaN
     ELSE Num(IF neg THEN 0 - ParseDigits(u, 0) ELSE ParseDigits(u, 0))

\* Math.max(...xs) of a non-empty list: NaN as soon as one argument is NaN
RECURSIVE MathMax(_)
MathMax(xs) ==
  IF Len(xs) = 1 THEN xs[1]
  ELSE LET r == MathMax(Tail(xs))
       IN IF xs[1].nan \/ r.nan THEN NaN
          ELSE IF xs[1].val >= r.val THEN xs[1] ELSE r

\* a <= b on JavaScript numbers: false when either is NaN
NumLeq(a, b) == ~a.nan /\ ~b.nan /\ a.val <= b.val

(* ------------------------------- dates --------------------------------- *)

\* milliseconds in a day: the "T" in an ISO string separates the calendar day
\* from the time of day
MsPerDay == 86400000

\* Date.prototype.toISOString of a valid Date with timestamp ms
ToISOString(ms) == [kind |-> "iso", day |-> ms \div MsPerDay, tod |-> ms % MsPerDay]

\* a stored string that is no date
NotADateString == [kind |-> "text", day |-> 0, tod |-> 0]

\* the stored string ""
EmptyDateString == [kind |-> "empty", day |-> 0, tod |-> 0]

NoDateString == [has |-> FALSE, v |-> EmptyDateString]

\* new Date(str).getTime()
DateParse(str) ==
  IF str.kind = "iso" THEN Num(str.day * MsPerDay + str.tod) ELSE NaN

(* ------------------------------- Task ---------------------------------- *)

\* NewTask with a bug: a description that is not given becomes ""
NewTaskEmptyDescription(id, title, description, dueDate) ==
  [id |-> id, title |-> title,
   description |-> IF description.has THEN description ELSE Some(""),
   completed |-> FALSE, dueDate |-> dueDate]

\* new Task(id, title, description, dueDate)
NewTask(id, title, description, dueDate) ==
  [id |-> id, title |-> title, description |-> description,
   completed |-> FALSE, dueDate |-> dueDate]

\* Task.toggleCompletion
ToggleCompletion(t) == [t EXCEPT !.completed = ~t.completed]

\* a field of a partial update: m says the key is present (hasOwnProperty),
\* has/v give its value (has = FALSE: the value undefined)
NotMentioned(none) == [m |-> FALSE, has |-> FALSE, v |-> none.v]

Mention(opt) == [m |-> TRUE, has |-> opt.has, v |-> opt.v]

ValueOf(f) == [has |-> f.has, v |-> f.v]

\* UpdateDetails with a bug: a field mentioned as undefined is skipped, never
\* cleared
UpdateDetailsDefinedOnly(t, details) ==
  LET t1 == IF details.title.m /\ details.title.has
            THEN [t EXCEPT !.title = ValueOf(details.title)] ELSE t
      t2 == IF details.description.m /\ details.description.has
            THEN [t1 EXCEPT !.description = ValueOf(details.description)] ELSE t1
  IN IF details.dueDate.m /\ details.dueDate.has
     THEN [t2 EXCEPT !.dueDate = ValueOf(details.dueDate)] ELSE t2

\* UpdateDetails with a bug: a record that gets a new title is reopened
UpdateDetailsReopens(t, details) ==
  LET t1 == IF details.title.m /\ details.title.has
            THEN [t EXCEPT !.title = ValueOf(details.title), !.completed = FALSE]
            ELSE t
      t2 == IF details.description.m
            THEN [t1 EXCEPT !.description = ValueOf(details.description)] ELSE t1
  IN IF details.dueDate.m
     THEN [t2 EXCEPT !.dueDate = ValueOf(details.dueDate)] ELSE t2

\* Task.updateDetails(details)
UpdateDetails(t, details) ==
  LET t1 == IF details.title.m /\ details.title.has
            THEN [t EXCEPT !.title = ValueOf(details.title)] ELSE t
      t2 == IF details.description.m
            THEN [t1 EXCEPT !.description = ValueOf(details.description)] ELSE t1
  IN IF details.dueDate.m
     THEN [t2 EXCEPT !.dueDate = ValueOf(details.dueDate)] ELSE t2

(* --------------------------- the backing file --------------------------- *)

NoFile == [kind |-> "none", recs |-> <<>>]

BlankFile == [kind |-> "blank", recs |-> <<>>]

CorruptFile == [kind |-> "corrupt", recs |-> <<>>]

\* a file that exists and that fs.readFileSync cannot read
UnreadableFile == [kind |-> "unreadable", recs |-> <<>>]

\* JSON that is no array (an object, a number, null): rawTasks.map is no function
NotSeqFile == [kind |-> "notseq", recs |-> <<>>]

\* a JSON array with the entries recs followed by null: rawTask.id throws there
NullEntryFile(recs) == [kind |-> "nullentry", recs |-> recs]

\* the files on which the try block of loadTasks throws
ThrowingKinds == {"corrupt", "unreadable", "notseq", "nullentry"}

JsonFile(recs) == [kind |-> "json", recs |-> recs]

\* SerializeTask with a bug: the description is written only when truthy
SerializeTaskTruthy(t) ==
  [id |-> Some(t.id), title |-> t.title,
   description |-> IF t.description.has /\ t.description.v # "" THEN t.description
                   ELSE NoString,
   completed |-> Some(t.completed),
   dueDate |-> IF t.dueDate.has THEN Some(ToISOString(t.dueDate.v))
               ELSE NoDateString]

\* one element of tasksToSave as JSON.stringify writes it: a key whose value is
\* undefined is left out
SerializeTask(t) ==
  [id |-> Some(t.id), title |-> t.title, description |-> t.description,
   completed |-> Some(t.completed),
   dueDate |-> IF t.dueDate.has THEN Some(ToISOString(t.dueDate.v))
               ELSE NoDateString]

Serialize(ts) == JsonFile([i \in 1..Len(ts) |-> SerializeTask(ts[i])])

\* the body of rawTasks.map in loadTasks for one entry, with the counter n
LoadOne(raw, n) ==
  LET truthyId == raw.id.has /\ raw.id.v # <<>>
      id == IF truthyId THEN raw.id.v ELSE ToString(n)
      hasDate == raw.dueDate.has /\ raw.dueDate.v.kind # "empty"
      parsed == DateParse(raw.dueDate.v)
      t0 == NewTask(id, raw.title, raw.description, NoDate)
      t1 == [t0 EXCEPT !.completed = raw.completed.has /\ raw.completed.v = TRUE]
  IN [task |-> IF hasDate /\ ~parsed.nan THEN [t1 EXCEPT !.dueDate = Some(parsed.val)] ELSE t1,
      n |-> IF truthyId THEN n ELSE n + 1,
      warn |-> IF hasDate /\ parsed.nan THEN <<[level |-> "warn", id |-> id]>> ELSE <<>>]

RECURSIVE LoadMap(_, _)
LoadMap(raws, n) ==
  IF raws = <<>> THEN [tasks |-> <<>>, n |-> n, log |-> <<>>]
  ELSE LET one == LoadOne(raws[1], n)
           rest == LoadMap(Tail(raws), one.n)
       IN [tasks |-> <<one.task>> \o rest.tasks, n |-> rest.n, log |-> one.warn \o rest.log]

\* MaxIdOf with a bug: an id that is no number is not replaced by 0
MaxIdOfRaw(ts) ==
  MathMax([i \in 1..Len(ts) |-> ParseInt(ts[i].id)])

\* the counter after a load of a non-empty sequence
MaxIdOf(ts) ==
  MathMax([i \in 1..Len(ts) |->
             LET idNum == ParseInt(ts[i].id) IN IF idNum.nan THEN Num(0) ELSE idNum])

\* NextIdAfterLoad with a bug: the counter is set to the maximum id itself
NextIdAfterLoadNoIncrement(ts) ==
  IF Len(ts) > 0
  THEN LET maxId == MaxIdOf(ts)
       IN IF maxId.nan \/ maxId.val < 1 THEN 1 ELSE maxId.val
  ELSE 1

NextIdAfterLoad(ts) ==
  IF Len(ts) > 0
  THEN LET maxId == MaxIdOf(ts)
       IN IF maxId.nan \/ maxId.val < 1 THEN 1 ELSE maxId.val + 1
  ELSE 1

Info(what) == [level |-> "info", id |-> what]

ErrorLog(what) == [level |-> "error", id |-> what]

\* LoadTasks with a bug: the catch block does not reset the counter, which
\* keeps what rawTasks.map made of it before the exception
LoadTasksNoReset(f) ==
  CASE f.kind = "none" ->
         [tasks |-> <<>>, nextId |-> 1, log |-> <<Info(<<"not found">>)>>]
    [] f.kind = "blank" ->
         [tasks |-> <<>>, nextId |-> 1, log |-> <<Info(<<"empty">>)>>]
    [] f.kind \in ThrowingKinds ->
         [tasks |-> <<>>, nextId |-> LoadMap(f.recs, 1).n,
          log |-> <<ErrorLog(<<"load">>)>>]
    [] OTHER ->
         LET m == LoadMap(f.recs, 1)
         IN [tasks |-> m.tasks, nextId |-> NextIdAfterLoad(m.tasks),
             log |-> m.log \o <<Info(<<"loaded">>)>>]

\* LoadTasks with a bug: a blank file is taken to JSON.parse, which throws
LoadTasksParsesBlank(f) ==
  CASE f.kind = "none" ->
         [tasks |-> <<>>, nextId |-> 1, log |-> <<Info(<<"not found">>)>>]
    [] f.kind \in ThrowingKinds \cup {"blank"} ->
         [tasks |-> <<>>, nextId |-> 1, log |-> <<ErrorLog(<<"load">>)>>]
    [] OTHER ->
         LET m == LoadMap(f.recs, 1)
         IN [tasks |-> m.tasks, nextId |-> NextIdAfterLoad(m.tasks),
             log |-> m.log \o <<Info(<<"loaded">>)>>]

\* TaskManager.loadTasks on a new instance (nextId = 1, tasks = []); on a file
\* of ThrowingKinds the catch block discards what the try block did
LoadTasks(f) ==
  CASE f.kind = "none" ->
         [tasks |-> <<>>, nextId |-> 1, log |-> <<Info(<<"not found">>)>>]
    [] f.kind = "blank" ->
         [tasks |-> <<>>, nextId |-> 1, log |-> <<Info(<<"empty">>)>>]
    [] f.kind \in ThrowingKinds ->
         [tasks |-> <<>>, nextId |-> 1, log |-> <<ErrorLog(<<"load">>)>>]
    [] OTHER ->
         LET m == LoadMap(f.recs, 1)
         IN [tasks |-> m.tasks, nextId |-> NextIdAfterLoad(m.tasks),
             log |-> m.log \o <<Info(<<"loaded">>)>>]

\* SaveTasks with a bug: only the last record is written
SaveTasksDelta(ts, f, ok) ==
  [file |-> IF ok THEN (IF ts = <<>> THEN Serialize(ts) ELSE Serialize(<<ts[Len(ts)]>>))
            ELSE f,
   writes |-> 1,
   log |-> IF ok THEN <<>> ELSE <<ErrorLog(<<"save">>)>>]

\* SaveTasks with a bug: a write that fails is tried a second time
SaveTasksRetry(ts, f, ok) ==
  [file |-> IF ok THEN Serialize(ts) ELSE f,
   writes |-> IF ok THEN 1 ELSE 2,
   log |-> IF ok THEN <<>> ELSE <<ErrorLog(<<"save">>)>>]

\* SaveTasks with a bug: a write that fails leaves the file blank
SaveTasksTruncates(ts, f, ok) ==
  [file |-> IF ok THEN Serialize(ts) ELSE BlankFile,
   writes |-> 1,
   log |-> IF ok THEN <<>> ELSE <<ErrorLog(<<"save">>)>>]

\* SaveTasks with a bug: the entries of the file that the collection does not
\* have are kept after those of the collection
SaveTasksMerge(ts, f, ok) ==
  LET mine == Serialize(ts).recs
      kept == IF f.kind = "json"
              THEN SelectSeq(f.recs, LAMBDA e : \A i \in 1..Len(mine) : mine[i] # e)
              ELSE <<>>
  IN [file |-> IF ok THEN JsonFile(mine \o kept) ELSE f,
      writes |-> 1,
      log |-> IF ok THEN <<>> ELSE <<ErrorLog(<<"save">>)>>]

\* TaskManager.saveTasks: ok = FALSE is fs.writeFileSync throwing
SaveTasks(ts, f, ok) ==
  [file |-> IF ok THEN Serialize(ts) ELSE f,
   writes |-> 1,
   log |-> IF ok THEN <<>> ELSE <<ErrorLog(<<"save">>)>>]

(* ----------------------------- operations ------------------------------ *)

\* AddTaskOp with a bug: the counter is not advanced
AddTaskOpNoAdvance(ts, n, title, description, dueDate) ==
  LET newTask == NewTask(ToString(n), title, description, dueDate)
  IN [tasks |-> Append(ts, newTask), nextId |-> n, task |-> newTask]

\* AddTaskOp with a bug: the counter is recomputed from the ids whenever they
\* are all numeric and none is negative, also when it is already above them
AddTaskOpRescanAlways(ts, n, title, description, dueDate) ==
  LET parsed == [i \in 1..Len(ts) |-> ParseInt(ts[i].id)]
      n1 == IF Len(ts) = 0 /\ n = 1 THEN n
            ELSE IF Len(ts) > 0 /\ ~MathMax(parsed).nan /\ MathMax(parsed).val >= 0
                 THEN MathMax(parsed).val + 1
                 ELSE n
      newTask == NewTask(ToString(n1), title, description, dueDate)
  IN [tasks |-> Append(ts, newTask), nextId |-> n1 + 1, task |-> newTask]

\* AddTaskOp with a bug: the new record is put in front (unshift, not push)
AddTaskOpUnshift(ts, n, title, description, dueDate) ==
  LET parsed == [i \in 1..Len(ts) |-> ParseInt(ts[i].id)]
      n1 == IF Len(ts) = 0 /\ n = 1 THEN n
            ELSE IF Len(ts) > 0 /\ NumLeq(Num(n), MathMax(parsed))
                 THEN MathMax(parsed).val + 1
                 ELSE n
      newTask == NewTask(ToString(n1), title, description, dueDate)
  IN [tasks |-> <<newTask>> \o ts, nextId |-> n1 + 1, task |-> newTask]

\* TaskManager.addTask up to the new record: the rescan of the counter, the
\* minted id and the push
AddTaskOp(ts, n, title, description, dueDate) ==
  LET parsed == [i \in 1..Len(ts) |-> ParseInt(ts[i].id)]
      n1 == IF Len(ts) = 0 /\ n = 1 THEN n
            ELSE IF Len(ts) > 0 /\ NumLeq(Num(n), MathMax(parsed))
                 THEN MathMax(parsed).val + 1
                 ELSE n
      newTask == NewTask(ToString(n1), title, description, dueDate)
  IN [tasks |-> Append(ts, newTask), nextId |-> n1 + 1, task |-> newTask]

\* Array.prototype.find by id: the index of the first match, 0 when none
FindIndex(ts, id) ==
  IF \E i \in 1..Len(ts) : ts[i].id = id
  THEN CHOOSE i \in 1..Len(ts) :
         ts[i].id = id /\ \A j \in 1..(i - 1) : ts[j].id # id
  ELSE 0

\* UpdateOne with a bug: a mentioned description or dueDate counts as a change
\* without being compared with the current value
UpdateOneNoDiff(task, updates) ==
  LET complCh == updates.completed.has /\ task.completed # updates.completed.v
      t1 == IF complCh THEN ToggleCompletion(task) ELSE task
      titleCh == updates.title.m /\ updates.title.has
                 /\ ValueOf(updates.title) # task.title
      descCh == updates.description.m
      dueCh == updates.dueDate.m
      detailUpdates ==
        [title |-> IF titleCh THEN updates.title ELSE NotMentioned(NoString),
         description |-> IF descCh THEN updates.description ELSE NotMentioned(NoString),
         dueDate |-> IF dueCh THEN updates.dueDate ELSE NotMentioned(NoDate)]
      detailsChanged == titleCh \/ descCh \/ dueCh
  IN [task |-> IF detailsChanged THEN UpdateDetails(t1, detailUpdates) ELSE t1,
      updated |-> complCh \/ detailsChanged]

\* UpdateOne with a bug: a change of completed alone is not marked for saving
UpdateOneDetailsOnly(task, updates) ==
  LET complCh == updates.completed.has /\ task.completed # updates.completed.v
      t1 == IF complCh THEN ToggleCompletion(task) ELSE task
      titleCh == updates.title.m /\ updates.title.has
                 /\ ValueOf(updates.title) # task.title
      descCh == updates.description.m
                /\ ValueOf(updates.description) # task.description
      dueCh == updates.dueDate.m /\ ValueOf(updates.dueDate) # task.dueDate
      detailUpdates ==
        [title |-> IF titleCh THEN updates.title ELSE NotMentioned(NoString),
         description |-> IF descCh THEN updates.description ELSE NotMentioned(NoString),
         dueDate |-> IF dueCh THEN updates.dueDate ELSE NotMentioned(NoDate)]
      detailsChanged == titleCh \/ descCh \/ dueCh
  IN [task |-> IF detailsChanged THEN UpdateDetails(t1, detailUpdates) ELSE t1,
      updated |-> detailsChanged]

\* UpdateOne with a bug: completed is toggled whenever the update gives it,
\* without comparing it with the current flag
UpdateOneAlwaysToggles(task, updates) ==
  LET complCh == updates.completed.has
      t1 == IF complCh THEN ToggleCompletion(task) ELSE task
      titleCh == updates.title.m /\ updates.title.has
                 /\ ValueOf(updates.title) # task.title
      descCh == updates.description.m
                /\ ValueOf(updates.description) # task.description
      dueCh == updates.dueDate.m /\ ValueOf(updates.dueDate) # task.dueDate
      detailUpdates ==
        [title |-> IF titleCh THEN updates.title ELSE NotMentioned(NoString),
         description |-> IF descCh THEN updates.description ELSE NotMentioned(NoString),
         dueDate |-> IF dueCh THEN updates.dueDate ELSE NotMentioned(NoDate)]
      detailsChanged == titleCh \/ descCh \/ dueCh
  IN [task |-> IF detailsChanged THEN UpdateDetails(t1, detailUpdates) ELSE t1,
      updated |-> complCh \/ detailsChanged]

\* the calendar day of an optional Date, as toISOString().split('T')[0]
\* gives it
DayOf(d) == [has |-> d.has, v |-> IF d.has THEN ToISOString(d.v).day ELSE 0]

\* UpdateOne with a bug: due dates are compared by calendar day
UpdateOneSameDay(task, updates) ==
  LET complCh == updates.completed.has /\ task.completed # updates.completed.v
      t1 == IF complCh THEN ToggleCompletion(task) ELSE task
      titleCh == updates.title.m /\ updates.title.has
                 /\ ValueOf(updates.title) # task.title
      descCh == updates.description.m
                /\ ValueOf(updates.description) # task.description
      dueCh == updates.dueDate.m /\ DayOf(ValueOf(updates.dueDate)) # DayOf(task.dueDate)
      detailUpdates ==
        [title |-> IF titleCh THEN updates.title ELSE NotMentioned(NoString),
         description |-> IF descCh THEN updates.description ELSE NotMentioned(NoString),
         dueDate |-> IF dueCh THEN updates.dueDate ELSE NotMentioned(NoDate)]
      detailsChanged == titleCh \/ descCh \/ dueCh
  IN [task |-> IF detailsChanged THEN UpdateDetails(t1, detailUpdates) ELSE t1,
      updated |-> complCh \/ detailsChanged]

\* UpdateOne with a bug: the title is handled as the description is, so that
\* a title mentioned as undefined clears the title
UpdateOneClearsTitle(task, updates) ==
  LET complCh == updates.completed.has /\ task.completed # updates.completed.v
      t1 == IF complCh THEN ToggleCompletion(task) ELSE task
      titleCh == updates.title.m /\ ValueOf(updates.title) # task.title
      descCh == updates.description.m
                /\ ValueOf(updates.description) # task.description
      dueCh == updates.dueDate.m /\ ValueOf(updates.dueDate) # task.dueDate
      detailUpdates ==
        [title |-> NotMentioned(NoString),
         description |-> IF descCh THEN updates.description ELSE NotMentioned(NoString),
         dueDate |-> IF dueCh THEN updates.dueDate ELSE NotMentioned(NoDate)]
      t2 == IF titleCh THEN [t1 EXCEPT !.title = ValueOf(updates.title)] ELSE t1
      detailsChanged == titleCh \/ descCh \/ dueCh
  IN [task |-> IF detailsChanged THEN UpdateDetails(t2, detailUpdates) ELSE t1,
      updated |-> complCh \/ detailsChanged]

\* the body of updateTask for the record found
UpdateOne(task, updates) ==
  LET complCh == updates.completed.has /\ task.completed # updates.completed.v
      t1 == IF complCh THEN ToggleCompletion(task) ELSE task
      titleCh == updates.title.m /\ updates.title.has
                 /\ ValueOf(updates.title) # task.title
      descCh == updates.description.m
                /\ ValueOf(updates.description) # task.description
      dueCh == updates.dueDate.m /\ ValueOf(updates.dueDate) # task.dueDate
      detailUpdates ==
        [title |-> IF titleCh THEN updates.title ELSE NotMentioned(NoString),
         description |-> IF descCh THEN updates.description ELSE NotMentioned(NoString),
         dueDate |-> IF dueCh THEN updates.dueDate ELSE NotMentioned(NoDate)]
      detailsChanged == titleCh \/ descCh \/ dueCh
  IN [task |-> IF detailsChanged THEN UpdateDetails(t1, detailUpdates) ELSE t1,
      updated |-> complCh \/ detailsChanged]

\* UpdateTaskOp with a bug: every record with the id is updated, not the first
UpdateTaskOpAllMatches(ts, id, updates) ==
  LET i == FindIndex(ts, id)
  IN IF i = 0 THEN [tasks |-> ts, found |-> FALSE, updated |-> FALSE, list |-> <<>>]
     ELSE LET r == UpdateOne(ts[i], updates)
          IN [tasks |-> [k \in 1..Len(ts) |->
                           IF ts[k].id = id THEN UpdateOne(ts[k], updates).task
                           ELSE ts[k]],
              found |-> TRUE, updated |-> r.updated, list |-> <<r.task>>]

\* UpdateTaskOp with a bug: a miss is marked for saving
UpdateTaskOpSavesOnMiss(ts, id, updates) ==
  LET i == FindIndex(ts, id)
  IN IF i = 0 THEN [tasks |-> ts, found |-> FALSE, updated |-> TRUE, list |-> <<>>]
     ELSE LET r == UpdateOne(ts[i], updates)
          IN [tasks |-> [ts EXCEPT ![i] = r.task], found |-> TRUE,
              updated |-> r.updated, list |-> <<r.task>>]

\* TaskManager.updateTask up to the save
UpdateTaskOp(ts, id, updates) ==
  LET i == FindIndex(ts, id)
  IN IF i = 0 THEN [tasks |-> ts, found |-> FALSE, updated |-> FALSE, list |-> <<>>]
     ELSE LET r == UpdateOne(ts[i], updates)
          IN [tasks |-> [ts EXCEPT ![i] = r.task], found |-> TRUE,
              updated |-> r.updated, list |-> <<r.task>>]

\* DeleteTaskOp with a bug: only the first match is removed
DeleteTaskOpFirstOnly(ts, id) ==
  LET i == FindIndex(ts, id)
  IN IF i = 0 THEN [tasks |-> ts, deleted |-> FALSE]
     ELSE [tasks |-> [k \in 1..(Len(ts) - 1) |-> IF k < i THEN ts[k] ELSE ts[k + 1]],
           deleted |-> TRUE]

\* DeleteTaskOp with a bug: the first match is removed by moving the last
\* record into its place
DeleteTaskOpSwapRemove(ts, id) ==
  LET i == FindIndex(ts, id)
  IN IF i = 0 THEN [tasks |-> ts, deleted |-> FALSE]
     ELSE [tasks |-> [k \in 1..(Len(ts) - 1) |-> IF k = i THEN ts[Len(ts)] ELSE ts[k]],
           deleted |-> TRUE]

\* DeleteTaskOp with a bug: reports a deletion whatever the filter removed
DeleteTaskOpAlwaysDeleted(ts, id) ==
  LET KeepOther(t) == t.id # id
      kept == SelectSeq(ts, KeepOther)
  IN [tasks |-> kept, deleted |-> TRUE]

\* TaskManager.deleteTask up to the save (SelectSeq is Array.prototype.filter)
DeleteTaskOp(ts, id) ==
  LET KeepOther(t) == t.id # id
      kept == SelectSeq(ts, KeepOther)
  IN [tasks |-> kept, deleted |-> Len(kept) < Len(ts)]

\* GetTasksByCompletion with a bug: a completed record passes either filter
GetTasksByCompletionLoose(ts, completed) ==
  LET Matches(t) == t.completed \/ t.completed = completed
  IN SelectSeq(ts, Matches)

\* TaskManager.getAllTasks
GetAllTasks(ts) == ts

\* TaskManager.getTasksByCompletion
GetTasksByCompletion(ts, completed) ==
  LET Matches(t) == t.completed = completed
  IN SelectSeq(ts, Matches)

\* GetTaskById with a bug: the last record with the id is returned
GetTaskByIdLast(ts, id) ==
  IF FindIndex(ts, id) = 0 THEN <<>>
  ELSE <<ts[CHOOSE i \in 1..Len(ts) :
              ts[i].id = id /\ \A j \in (i + 1)..Len(ts) : ts[j].id # id]>>

\* TaskManager.getTaskById
GetTaskById(ts, id) ==
  IF FindIndex(ts, id) = 0 THEN <<>> ELSE <<ts[FindIndex(ts, id)]>>

(* ------------------------------- inputs -------------------------------- *)

StoredIds == {NoId, Some(<<"1">>), Some(<<"3">>), Some(<<"a">>)}

Day0 == 0

Day0Later == 3600000

NoUpdate ==
  [title |-> NotMentioned(NoString), description |-> NotMentioned(NoString),
   dueDate |-> NotMentioned(NoDate), completed |-> NotMentioned(NoBool)]

\* the stored fields other than the id, in four shapes
StoredRest ==
  << [title |-> Some("t"), description |-> NoString, completed |-> Some(FALSE),
      dueDate |-> NoDateString],
     [title |-> Some("t"), description |-> Some(""), completed |-> Some(TRUE),
      dueDate |-> Some(ToISOString(Day0))],
     [title |-> Some("u"), description |-> Some("d"), completed |-> NoBool,
      dueDate |-> Some(NotADateString)],
     [title |-> Some("u"), description |-> NoString, completed |-> Some(TRUE),
      dueDate |-> Some(EmptyDateString)] >>

Stored(id, k) ==
  [id |-> id, title |-> StoredRest[k].title, description |-> StoredRest[k].description,
   completed |-> StoredRest[k].completed, dueDate |-> StoredRest[k].dueDate]

\* the stored id ""
EmptyId == Some(<<>>)

\* the stored id "-3"
NegativeId == Some(<<"-", "3">>)

StoredSeqs ==
  {<<>>}
  \cup {<<Stored(a, k)>> : a \in StoredIds, k \in 1..3}
  \cup {<<Stored(EmptyId, 1)>>, <<Stored(Some(<<"1">>), 4)>>, <<Stored(NegativeId, 1)>>,
        <<Stored(NoId, 3), Stored(Some(<<"3">>), 2)>>,
        <<Stored(EmptyId, 2), Stored(Some(<<"1">>), 3)>>,
        <<Stored(EmptyId, 2), Stored(NoId, 3)>>}
  \cup {<<Stored(a, 2), Stored(b, 3)>> : a \in StoredIds, b \in StoredIds}

InitFiles ==
  {NoFile, BlankFile, CorruptFile, UnreadableFile, NotSeqFile,
   NullEntryFile(<<Stored(NoId, 1)>>)}
  \cup {JsonFile(rs) : rs \in StoredSeqs}

\* the arguments are what the front-end passes after its validation: a non-empty
\* title and a due date that is a valid Date
AddTitles == {Some("t")}

\* description and dueDate as AddTask's callers give them
AddDetails == {<<NoString, NoDate>>, <<Some("d"), Some(Day0)>>, <<Some(""), NoDate>>}

Upd(a, b, c, d) == [title |-> a, description |-> b, dueDate |-> c, completed |-> d]

NmS == NotMentioned(NoString)

NmD == NotMentioned(NoDate)

NmB == NotMentioned(NoBool)

\* the update {completed: c}
OnlyCompleted(c) == Upd(NmS, NmS, NmD, Mention(Some(c)))

\* the partial updates issued: none, each field alone (set, and cleared where
\* the type allows it), and several fields at once
Updates ==
  { NoUpdate,
    Upd(NmS, NmS, NmD, Mention(Some(TRUE))),
    Upd(NmS, NmS, NmD, Mention(Some(FALSE))),
    Upd(Mention(Some("u")), NmS, NmD, NmB),
    Upd(Mention(NoString), NmS, NmD, NmB),
    Upd(Mention(Some("")), NmS, NmD, NmB),
    Upd(NmS, Mention(NoString), NmD, NmB),
    Upd(NmS, Mention(Some("")), NmD, NmB),
    Upd(NmS, NmS, Mention(NoDate), NmB),
    Upd(NmS, NmS, Mention(Some(Day0Later)), NmB),
    Upd(Mention(Some("u")), NmS, NmD, Mention(Some(TRUE))),
    Upd(Mention(NoString), Mention(NoString), Mention(NoDate), Mention(NoBool)),
    Upd(Mention(Some("u")), Mention(Some("")), Mention(Some(Day0Later)), Mention(Some(TRUE))) }

CompletionUpdates == {OnlyCompleted(TRUE), OnlyCompleted(FALSE)}

LifecycleUpdates ==
  { NoUpdate,
    Upd(NmS, NmS, NmD, Mention(Some(TRUE))),
    Upd(Mention(Some("u")), Mention(NoString), Mention(Some(Day0Later)), NmB),
    Upd(Mention(Some("u")), Mention(Some("")), Mention(Some(Day0Later)), Mention(Some(TRUE))) }

\* ids a caller may name: those in the collection and one that is in none
MissingId == <<"9", "9">>

ArgIds == {tasks[i].id : i \in 1..Len(tasks)} \cup {MissingId}

(* ----------------------------- state machine --------------------------- *)

\* whether fs.writeFileSync returns (TRUE) or throws (FALSE)
WriteOutcomes == IF nfail < MaxFailures THEN BOOLEAN ELSE {TRUE}

\* the collection that the last write that succeeded serialized, if any
NothingSaved == [written |-> FALSE, tasks |-> <<>>]

Saved(ts) == [written |-> TRUE, tasks |-> ts]

Pre == [file |-> file, tasks |-> tasks, nextId |-> nextId]

\* what an updateTask keeps of the call before it when that was
\* updateTask(id, {completed: true})
NoCall == [op |-> "none", id |-> <<>>, upd |-> NoUpdate, writes |-> 0, list |-> <<>>]

CallBefore ==
  IF last.op = "update" /\ last.upd = OnlyCompleted(TRUE)
  THEN [op |-> last.op, id |-> last.id, upd |-> last.upd, writes |-> last.writes,
        list |-> last.ret.list]
  ELSE NoCall

Ret(found, list) == [found |-> found, list |-> list]

\* what is remembered of a write of the instance in use that failed: pending
\* says that no write has succeeded since, file is the file before the call
\* whose write failed, tasks the collection that was to be written, quiet says
\* that a call that writes nothing was made since, and healed that the last
\* call was the first one since whose write succeeded
NoFailure ==
  [pending |-> FALSE, healed |-> FALSE, quiet |-> FALSE, file |-> NoFile,
   tasks |-> <<>>]

\* failed after a call that left the collection ts, attempted writes writes
\* and, if it attempted one, saw fs.writeFileSync return (ok) or throw
AfterCall(ts, writes, ok) ==
  IF writes = 0
  THEN (IF failed.pending THEN [failed EXCEPT !.quiet = TRUE] ELSE NoFailure)
  ELSE IF ~ok
       THEN [pending |-> TRUE, healed |-> FALSE, quiet |-> FALSE,
             file |-> IF failed.pending THEN failed.file ELSE file, tasks |-> ts]
       ELSE IF failed.pending
            THEN [failed EXCEPT !.pending = FALSE, !.healed = TRUE]
            ELSE NoFailure

\* a TaskManager instance that no call is being made on: its two fields, and
\* what is remembered of its own history
Instance(ts, n, m, r, l) ==
  [open |-> TRUE, tasks |-> ts, nextId |-> n, minted |-> m, removed |-> r,
   loaded |-> l]

\* no second instance has been constructed
NoOther ==
  [open |-> FALSE, tasks |-> <<>>, nextId |-> 1, minted |-> <<>>, removed |-> {},
   loaded |-> NoFile]

\* Construct with a bug: the constructor saves what it loaded
ConstructAndSave(f) ==
  LET r == LoadTasks(f)
  IN [tasks |-> r.tasks, nextId |-> r.nextId, log |-> r.log,
      file |-> Serialize(r.tasks), writes |-> 1]

\* the TaskManager constructor on the file f: it calls loadTasks and nothing
\* else, so it leaves the file as it is and makes no write
Construct(f) ==
  LET r == LoadTasks(f)
  IN [tasks |-> r.tasks, nextId |-> r.nextId, log |-> r.log,
      file |-> f, writes |-> 0]

Init ==
  \E f \in InitFiles :
    LET r == Construct(f)
    IN /\ file = r.file
       /\ tasks = r.tasks
       /\ nextId = r.nextId
       /\ last = [op |-> "init", id |-> <<>>, upd |-> NoUpdate, ok |-> TRUE,
                  ret |-> Ret(TRUE, r.tasks), writes |-> r.writes, log |-> r.log,
                  pre |-> [file |-> f, tasks |-> <<>>, nextId |-> 1]]
       /\ minted = <<>>
       /\ removed = {}
       /\ saved = NothingSaved
       /\ nops = 0
       /\ nfail = 0
       /\ loaded = f
       /\ prev = NoCall
       /\ everRemoved = {}
       /\ other = NoOther
       /\ failed = NoFailure

\* new TaskManager() in a later run of the program, on the file as it is
Restart ==
  /\ \E r \in {Construct(file)} :
        /\ file' = r.file
        /\ tasks' = r.tasks
        /\ nextId' = r.nextId
        /\ last' = [op |-> "init", id |-> <<>>, upd |-> NoUpdate, ok |-> TRUE,
                    ret |-> Ret(TRUE, r.tasks), writes |-> r.writes, log |-> r.log,
                    pre |-> [file |-> file, tasks |-> <<>>, nextId |-> 1]]
  /\ minted' = <<>>
  /\ removed' = {}
  /\ loaded' = file
  /\ prev' = NoCall
  /\ failed' = NoFailure
  /\ UNCHANGED <<saved, nfail, nops, everRemoved, other>>

AddTask ==
  /\ nops < MaxOps
  /\ \E title \in AddTitles, details \in AddDetails, ok \in WriteOutcomes :
       \E r \in {AddTaskOp(tasks, nextId, title, details[1], details[2])} :
       \E s \in {SaveTasks(r.tasks, file, ok)} :
       LET description == details[1]
           dueDate == details[2]
       IN /\ tasks' = r.tasks
          /\ nfail' = IF ok THEN nfail ELSE nfail + 1
          /\ nextId' = r.nextId
          /\ file' = s.file
          /\ saved' = IF s.writes = 1 /\ ok THEN Saved(r.tasks) ELSE saved
          /\ failed' = AfterCall(r.tasks, s.writes, ok)
          /\ minted' = Append(minted, r.task.id)
          /\ last' = [op |-> "add", id |-> <<>>,
                      upd |-> [title |-> Mention(title), description |-> Mention(description),
                               dueDate |-> Mention(dueDate), completed |-> NotMentioned(NoBool)],
                      ok |-> ok, ret |-> Ret(TRUE, <<r.task>>), writes |-> s.writes,
                      log |-> s.log, pre |-> Pre]
  /\ nops' = nops + 1
  /\ prev' = NoCall
  /\ UNCHANGED <<removed, loaded, everRemoved, other>>

UpdateTask(U) ==
  /\ nops < MaxOps
  /\ \E id \in ArgIds, updates \in U, ok \in WriteOutcomes :
       \E r \in {UpdateTaskOp(tasks, id, updates)} :
       \E s \in {IF r.updated THEN SaveTasks(r.tasks, file, ok)
                 ELSE [file |-> file, writes |-> 0, log |-> <<>>]} :
          /\ (r.updated \/ ok)
          /\ nfail' = IF ok THEN nfail ELSE nfail + 1
          /\ tasks' = r.tasks
          /\ file' = s.file
          /\ saved' = IF s.writes = 1 /\ ok THEN Saved(r.tasks) ELSE saved
          /\ failed' = AfterCall(r.tasks, s.writes, ok)
          /\ last' = [op |-> "update", id |-> id, upd |-> updates,
                      ok |-> ok, ret |-> Ret(r.found, r.list), writes |-> s.writes,
                      log |-> s.log, pre |-> Pre]
  /\ nops' = nops + 1
  /\ prev' = CallBefore
  /\ UNCHANGED <<nextId, minted, removed, loaded, everRemoved, other>>

DeleteTask ==
  /\ nops < MaxOps
  /\ \E id \in ArgIds, ok \in WriteOutcomes :
       \E r \in {DeleteTaskOp(tasks, id)} :
       \E s \in {IF r.deleted THEN SaveTasks(r.tasks, file, ok)
                 ELSE [file |-> file, writes |-> 0, log |-> <<>>]} :
          /\ (r.deleted \/ ok)
          /\ nfail' = IF ok THEN nfail ELSE nfail + 1
          /\ tasks' = r.tasks
          /\ file' = s.file
          /\ saved' = IF s.writes = 1 /\ ok THEN Saved(r.tasks) ELSE saved
          /\ failed' = AfterCall(r.tasks, s.writes, ok)
          /\ removed' = IF r.deleted THEN removed \cup {id} ELSE removed
          /\ everRemoved' = IF r.deleted THEN everRemoved \cup {id} ELSE everRemoved
          /\ last' = [op |-> "delete", id |-> id, upd |-> NoUpdate,
                      ok |-> ok, ret |-> Ret(r.deleted, <<>>), writes |-> s.writes,
                      log |-> s.log, pre |-> Pre]
  /\ nops' = nops + 1
  /\ prev' = NoCall
  /\ UNCHANGED <<nextId, minted, loaded, other>>

\* a call of getTasksByCompletion: it reads the collection and changes nothing
GetTasksByCompletionCall ==
  /\ \E completed \in BOOLEAN :
       last' = [op |-> "getByCompletion", id |-> <<>>,
                upd |-> Upd(NmS, NmS, NmD, Mention(Some(completed))),
                ok |-> TRUE, ret |-> Ret(TRUE, GetTasksByCompletion(tasks, completed)),
                writes |-> 0, log |-> <<>>, pre |-> Pre]
  /\ prev' = NoCall
  /\ failed' = AfterCall(tasks, 0, TRUE)
  /\ UNCHANGED <<file, tasks, nextId, minted, removed, saved, nops, nfail, loaded,
                 everRemoved, other>>

\* a call of getAllTasks: it returns the collection and changes nothing
GetAllTasksCall ==
  /\ last' = [op |-> "getAll", id |-> <<>>, upd |-> NoUpdate, ok |-> TRUE,
              ret |-> Ret(TRUE, GetAllTasks(tasks)), writes |-> 0, log |-> <<>>,
              pre |-> Pre]
  /\ prev' = NoCall
  /\ failed' = AfterCall(tasks, 0, TRUE)
  /\ UNCHANGED <<file, tasks, nextId, minted, removed, saved, nops, nfail, loaded,
                 everRemoved, other>>

\* a call of getTaskById: it returns the record found, or undefined, and
\* changes nothing
GetTaskByIdCall ==
  /\ \E id \in ArgIds :
       last' = [op |-> "getById", id |-> id, upd |-> NoUpdate, ok |-> TRUE,
                ret |-> Ret(GetTaskById(tasks, id) # <<>>, GetTaskById(tasks, id)),
                writes |-> 0, log |-> <<>>, pre |-> Pre]
  /\ prev' = NoCall
  /\ failed' = AfterCall(tasks, 0, TRUE)
  /\ UNCHANGED <<file, tasks, nextId, minted, removed, saved, nops, nfail, loaded,
                 everRemoved, other>>

\* new TaskManager() while the first instance is still in use: the new
\* instance loads the file as it is now, and the calls that follow are made
\* on it until OtherManager
SecondManager ==
  /\ ~other.open
  /\ other' = Instance(tasks, nextId, minted, removed, loaded)
  /\ \E r \in {Construct(file)} :
        /\ file' = r.file
        /\ tasks' = r.tasks
        /\ nextId' = r.nextId
        /\ last' = [op |-> "init", id |-> <<>>, upd |-> NoUpdate, ok |-> TRUE,
                    ret |-> Ret(TRUE, r.tasks), writes |-> r.writes, log |-> r.log,
                    pre |-> [file |-> file, tasks |-> <<>>, nextId |-> 1]]
  /\ minted' = <<>>
  /\ removed' = {}
  /\ loaded' = file
  /\ prev' = NoCall
  /\ failed' = NoFailure
  /\ UNCHANGED <<saved, nfail, nops, everRemoved>>

\* the calls that follow are made on the other of the two instances; each
\* keeps its own tasks and nextId, and both share the file (turning to the
\* other instance twice in a row is turning to neither)
OtherManager ==
  /\ other.open
  /\ last.op # "other"
  /\ other' = Instance(tasks, nextId, minted, removed, loaded)
  /\ tasks' = other.tasks
  /\ nextId' = other.nextId
  /\ minted' = other.minted
  /\ removed' = other.removed
  /\ loaded' = other.loaded
  /\ last' = [op |-> "other", id |-> <<>>, upd |-> NoUpdate, ok |-> TRUE,
              ret |-> Ret(TRUE, <<>>), writes |-> 0, log |-> <<>>, pre |-> Pre]
  /\ prev' = NoCall
  /\ failed' = NoFailure
  /\ UNCHANGED <<file, saved, nops, nfail, everRemoved>>

\* the life of a collection: every operation that changes it, with a few of
\* the updates
Next == Restart \/ AddTask \/ UpdateTask(LifecycleUpdates) \/ DeleteTask

Spec == Init /\ [][Next]_vars

\* the collections that additions, changes of the completed flag and deletions
\* make, and the queries on them
NextQuery ==
  \/ AddTask
  \/ UpdateTask(CompletionUpdates)
  \/ DeleteTask
  \/ GetTasksByCompletionCall
  \/ GetAllTasksCall
  \/ GetTaskByIdCall

SpecQuery == Init /\ [][NextQuery]_vars

\* updateTask on loaded records, with every update of Updates
NextUpdate == UpdateTask(Updates)

SpecUpdate == Init /\ [][NextUpdate]_vars

\* two instances on one file, with the calls on them interleaved
NextTwo ==
  \/ SecondManager
  \/ OtherManager
  \/ AddTask
  \/ UpdateTask(CompletionUpdates)
  \/ DeleteTask

\* the file the two instances share is, at the start, absent or a valid one
\* of at most one entry
InitTwo ==
  /\ Init
  /\ file.kind \in {"none", "json"}
  /\ Len(file.recs) <= 1

SpecTwo == InitTwo /\ [][NextTwo]_vars

(* ------------------------------- claims -------------------------------- *)

UniqueIds(ts) == \A i, j \in 1..Len(ts) : i # j => ts[i].id # ts[j].id

HasId(ts, id) == \E i \in 1..Len(ts) : ts[i].id = id

\* the first record of ts whose id is id (when there is one)
FirstWithId(ts, id) ==
  ts[CHOOSE i \in 1..Len(ts) : ts[i].id = id /\ \A j \in 1..(i - 1) : ts[j].id # id]

\* ts without its k-th element
RemoveAt(ts, k) == [i \in 1..(Len(ts) - 1) |-> IF i < k THEN ts[i] ELSE ts[i + 1]]

FrameUnchanged ==
  /\ tasks = last.pre.tasks
  /\ nextId = last.pre.nextId
  /\ file = last.pre.file

\* C1: after Initialize from any blob and any sequence of AddTask, UpdateTask
\* and DeleteTask, no two records of the collection have the same id.
C1_IdsUnique == UniqueIds(tasks)

\* C2: on one instance the ids returned by AddTask are pairwise distinct and
\* numerically increasing in the order of the calls, and AddTask never returns
\* an id that DeleteTask removed earlier on this instance.
C2_MintedIncreasing ==
  /\ \A i, j \in 1..Len(minted) :
       i < j => /\ minted[i] # minted[j]
                /\ ~ParseInt(minted[i]).nan /\ ~ParseInt(minted[j]).nan
                /\ ParseInt(minted[i]).val < ParseInt(minted[j]).val
  /\ last.op = "add" => last.ret.list[1].id \notin removed

C2_Witness ==
  /\ last.op = "add"
  /\ Len(minted) = 2
  /\ Len(last.pre.tasks) >= 2

\* C3: after a state-changing operation whose write succeeds the file holds one
\* entry per record of the collection, in the same order, carrying that
\* record's id, title, description, completed flag and due date.
C3_FileIsWholeCollection ==
  (last.op \in {"add", "update", "delete"} /\ tasks # last.pre.tasks /\ last.ok)
    => /\ file.kind = "json"
       /\ Len(file.recs) = Len(tasks)
       /\ \A i \in 1..Len(tasks) :
            /\ file.recs[i].id = Some(tasks[i].id)
            /\ file.recs[i].title = tasks[i].title
            /\ file.recs[i].description = tasks[i].description
            /\ file.recs[i].completed = Some(tasks[i].completed)
            /\ file.recs[i].dueDate.has = tasks[i].dueDate.has
            /\ tasks[i].dueDate.has
                 => DateParse(file.recs[i].dueDate.v) = Num(tasks[i].dueDate.v)

C3_Witness ==
  /\ last.op = "delete" /\ last.ok /\ last.writes = 1
  /\ Len(tasks) >= 2
  /\ file # last.pre.file

\* C4: a new Manager constructed on a file that the previous write serialized
\* holds the records that write serialized: same order, ids, titles,
\* descriptions (absent, empty or not), completed flags and due dates.
C4_RoundTrip ==
  (last.op = "init" /\ saved.written) => tasks = saved.tasks

C4_Witness ==
  /\ last.op = "init" /\ saved.written
  /\ \E i, j, k \in 1..Len(tasks) :
       /\ tasks[i].description = Some("")
       /\ ~tasks[j].description.has
       /\ tasks[k].dueDate.has /\ tasks[k].completed

\* C5: UpdateTask with an id of no record returns not-found, writes nothing and
\* leaves collection, counter and file as they were.
C5_UpdateMiss ==
  (last.op = "update" /\ ~HasId(last.pre.tasks, last.id))
    => /\ ~last.ret.found /\ last.ret.list = <<>>
       /\ last.writes = 0
       /\ FrameUnchanged

C5_Witness ==
  /\ last.op = "update" /\ ~HasId(last.pre.tasks, last.id)
  /\ Len(last.pre.tasks) >= 1
  /\ last.upd.title.m /\ last.upd.title.has

\* every field the update mentions carries the record's current value
MentionsOnlyCurrent(u, t) ==
  /\ u.title.m => ValueOf(u.title) = t.title
  /\ u.description.m => ValueOf(u.description) = t.description
  /\ u.dueDate.m => ValueOf(u.dueDate) = t.dueDate
  /\ u.completed.m => (u.completed.has /\ u.completed.v = t.completed)

\* C6: UpdateTask on an existing record with an update that mentions no field,
\* or only fields equal to the current values, writes nothing and returns the
\* record unchanged.
C6_NoOpUpdate ==
  (/\ last.op = "update" /\ HasId(last.pre.tasks, last.id)
   /\ MentionsOnlyCurrent(last.upd, FirstWithId(last.pre.tasks, last.id)))
    => /\ last.writes = 0
       /\ last.ret.found
       /\ last.ret.list = <<FirstWithId(last.pre.tasks, last.id)>>
       /\ FrameUnchanged

C6_Witness ==
  /\ last.op = "update" /\ HasId(last.pre.tasks, last.id)
  /\ MentionsOnlyCurrent(last.upd, FirstWithId(last.pre.tasks, last.id))
  /\ last.upd.description.m /\ last.upd.dueDate.m /\ last.upd.dueDate.has

\* C7: UpdateTask on an existing record that changes at least one field makes
\* exactly one write, however many fields change, and returns the record.
C7_ChangingUpdateWritesOnce ==
  (last.op = "update" /\ HasId(last.pre.tasks, last.id) /\ tasks # last.pre.tasks)
    => /\ last.writes = 1
       /\ last.ret.found
       /\ last.ret.list = <<FirstWithId(tasks, last.id)>>

C7_Witness ==
  /\ last.op = "update" /\ last.writes = 1
  /\ LET old == FirstWithId(last.pre.tasks, last.id)
         new == last.ret.list[1]
     IN /\ old.title # new.title /\ old.description # new.description
        /\ old.dueDate # new.dueDate /\ old.completed # new.completed

\* C8: UpdateTask leaves every field the update does not mention as it was,
\* gives every field mentioned with a value that value, and clears a present
\* description or dueDate mentioned as absent, with exactly one write.
C8_AppliesMentionedFields ==
  (last.op = "update" /\ HasId(last.pre.tasks, last.id))
    => LET old == FirstWithId(last.pre.tasks, last.id)
           new == last.ret.list[1]
           u == last.upd
       IN /\ ~u.title.m => new.title = old.title
          /\ ~u.description.m => new.description = old.description
          /\ ~u.dueDate.m => new.dueDate = old.dueDate
          /\ ~u.completed.m => new.completed = old.completed
          /\ (u.title.m /\ u.title.has) => new.title = ValueOf(u.title)
          /\ (u.description.m /\ u.description.has)
               => new.description = ValueOf(u.description)
          /\ (u.dueDate.m /\ u.dueDate.has) => new.dueDate = ValueOf(u.dueDate)
          /\ (u.completed.m /\ u.completed.has) => new.completed = u.completed.v
          /\ (u.description.m /\ ~u.description.has /\ old.description.has)
               => (~new.description.has /\ last.writes = 1)
          /\ (u.dueDate.m /\ ~u.dueDate.has /\ old.dueDate.has)
               => (~new.dueDate.has /\ last.writes = 1)
          /\ new = FirstWithId(tasks, last.id)

C8_Witness ==
  /\ last.op = "update" /\ HasId(last.pre.tasks, last.id)
  /\ LET old == FirstWithId(last.pre.tasks, last.id)
         new == last.ret.list[1]
     IN /\ last.upd.description.m /\ ~last.upd.description.has
        /\ last.upd.dueDate.m /\ ~last.upd.dueDate.has
        /\ old.description.has /\ old.dueDate.has
        /\ ~new.description.has /\ ~new.dueDate.has

\* C9: DeleteTask with the id of some record removes exactly one record, the
\* first with that id, leaves the others and their order as they were, makes
\* exactly one write and returns true.
C9_DeleteRemovesOne ==
  (last.op = "delete" /\ HasId(last.pre.tasks, last.id))
    => /\ last.ret.found
       /\ last.writes = 1
       /\ tasks = RemoveAt(last.pre.tasks, FindIndex(last.pre.tasks, last.id))

\* C10: DeleteTask with an id of no record returns false, writes nothing and
\* leaves collection, counter and file as they were.
C10_DeleteMiss ==
  (last.op = "delete" /\ ~HasId(last.pre.tasks, last.id))
    => /\ ~last.ret.found
       /\ last.writes = 0
       /\ FrameUnchanged

C10_Witness ==
  /\ last.op = "delete" /\ ~HasId(last.pre.tasks, last.id)
  /\ Len(tasks) >= 2

\* C11: after AddTask the collection is the previous sequence followed by the
\* new record as its last element, the record returned is that element, and
\* the call made exactly one write.
C11_AddAppends ==
  last.op = "add"
    => /\ Len(last.ret.list) = 1
       /\ tasks = Append(last.pre.tasks, last.ret.list[1])
       /\ tasks[Len(tasks)] = last.ret.list[1]
       /\ last.writes = 1

C11_Witness ==
  /\ last.op = "add"
  /\ Len(last.pre.tasks) >= 2
  /\ last.ret.list[1] # last.pre.tasks[1]

\* the indices of the records of ts whose completed flag is c
IndicesWith(ts, c) == {i \in 1..Len(ts) : ts[i].completed = c}

\* l lists exactly the records of ts whose completed flag is c, in the order
\* they have in ts
ListsInOrder(l, ts, c) ==
  /\ Len(l) = Cardinality(IndicesWith(ts, c))
  /\ \A i \in IndicesWith(ts, c) :
       l[Cardinality({j \in IndicesWith(ts, c) : j <= i})] = ts[i]

\* C12: in every reachable state getTasksByCompletion(true) and
\* getTasksByCompletion(false) have no record in common, together hold exactly
\* the records of getAllTasks(), each in the relative order of getAllTasks();
\* a call returns that list.
C12_CompletionPartition ==
  LET done == GetTasksByCompletion(tasks, TRUE)
      pending == GetTasksByCompletion(tasks, FALSE)
      all == GetAllTasks(tasks)
  IN /\ \A i \in 1..Len(done), j \in 1..Len(pending) : done[i] # pending[j]
     /\ Len(done) + Len(pending) = Len(all)
     /\ \A k \in 1..Len(all) :
          \/ \E i \in 1..Len(done) : done[i] = all[k]
          \/ \E j \in 1..Len(pending) : pending[j] = all[k]
     /\ ListsInOrder(done, all, TRUE)
     /\ ListsInOrder(pending, all, FALSE)
     /\ last.op = "getByCompletion"
          => last.ret.list = (IF last.upd.completed.v THEN done ELSE pending)

C12_Witness ==
  /\ last.op = "getByCompletion" /\ last.upd.completed.v
  /\ Len(last.ret.list) = 2
  /\ Len(tasks) = 3
  /\ tasks[1].completed /\ ~tasks[2].completed /\ tasks[3].completed

\* the record returned by the first AddTask of the instance, when the last
\* call was that AddTask
FirstAdd == last.op = "add" /\ Len(minted) = 1

HasError(log) == \E i \in 1..Len(log) : log[i].level = "error"

EmptyStore(f) == f.kind \in {"none", "blank"} \/ (f.kind = "json" /\ f.recs = <<>>)

C14_EmptyFile ==
  /\ (last.op = "init" /\ EmptyStore(loaded))
       => /\ tasks = <<>> /\ nextId = 1
          /\ ~HasError(last.log)
  /\ (FirstAdd /\ EmptyStore(loaded))
       => last.ret.list[1].id = <<"1">>

C14_Witness ==
  /\ FirstAdd
  /\ loaded = JsonFile(<<>>)
  /\ last.pre.file = loaded
  /\ last.ret.list[1].id = <<"1">>

\* C15: the constructor gives every record whose stored id is present that id
\* verbatim, numeric or not, and the first AddTask after it returns an id that
\* is a number greater than every numeric id among the records loaded.
C15_KeepsStoredIds ==
  /\ (last.op = "init" /\ loaded.kind = "json")
       => /\ Len(tasks) = Len(loaded.recs)
          /\ \A i \in 1..Len(loaded.recs) :
               loaded.recs[i].id.has => tasks[i].id = loaded.recs[i].id.v
  /\ (FirstAdd /\ loaded.kind = "json")
       => LET id == last.ret.list[1].id
              ts == LoadTasks(loaded).tasks
          IN /\ ~ParseInt(id).nan
             /\ \A i \in 1..Len(ts) :
                  ~ParseInt(ts[i].id).nan => ParseInt(ts[i].id).val < ParseInt(id).val

\* the record t carries the stored title, description and completed flag of
\* the entry raw
FieldsLoaded(raw, t) ==
  /\ t.title = raw.title
  /\ t.description = raw.description
  /\ t.completed = (raw.completed.has /\ raw.completed.v)

Warned(log, id) == \E k \in 1..Len(log) : log[k] = [level |-> "warn", id |-> id]

\* C16: the constructor loads a record whose stored due-date string is no
\* valid date with dueDate absent and a warning naming its id, with its other
\* fields as stored, and loads every other record of the file in its position.
C16_InvalidDueDate ==
  (last.op = "init" /\ loaded.kind = "json")
    => /\ Len(tasks) = Len(loaded.recs)
       /\ \A i \in 1..Len(loaded.recs) :
            LET raw == loaded.recs[i]
            IN /\ FieldsLoaded(raw, tasks[i])
               /\ (raw.dueDate.has /\ DateParse(raw.dueDate.v).nan)
                    => (~tasks[i].dueDate.has /\ Warned(last.log, tasks[i].id))
               /\ (raw.dueDate.has /\ ~DateParse(raw.dueDate.v).nan)
                    => tasks[i].dueDate = Some(DateParse(raw.dueDate.v).val)

\* C17: when the write of AddTask, UpdateTask or DeleteTask fails, the call
\* returns what it returns otherwise (the new record, the updated record,
\* true), the collection holds the change, and one write was attempted.
C17_WriteFailure ==
  (last.op \in {"add", "update", "delete"} /\ ~last.ok)
    => /\ last.writes = 1
       /\ last.op = "add"
            => /\ Len(last.ret.list) = 1
               /\ tasks = Append(last.pre.tasks, last.ret.list[1])
               /\ last.ret.list[1].title = ValueOf(last.upd.title)
       /\ last.op = "update"
            => /\ last.ret.found
               /\ last.ret.list = <<FirstWithId(tasks, last.id)>>
               /\ tasks # last.pre.tasks
               /\ last.upd.completed.has
                    => last.ret.list[1].completed = last.upd.completed.v
       /\ last.op = "delete"
            => /\ last.ret.found
               /\ ~HasId(tasks, last.id)
               /\ Len(tasks) < Len(last.pre.tasks)

C17_Witness ==
  /\ last.op = "delete" /\ ~last.ok
  /\ Len(tasks) >= 1
  /\ file = last.pre.file /\ file.kind = "json"
  /\ Len(file.recs) > Len(tasks)

\* C18: updateTask(id, {completed: true}) followed by
\* updateTask(id, {completed: false}) leaves the record with completed = false,
\* and a call with such an update makes one write when it flips the flag and
\* none when it does not.
C18_CompleteThenReopen ==
  /\ (/\ last.op = "update" /\ last.ret.found
      /\ last.upd \in {OnlyCompleted(TRUE), OnlyCompleted(FALSE)})
       => last.writes =
            (IF FirstWithId(last.pre.tasks, last.id).completed # last.upd.completed.v
             THEN 1 ELSE 0)
  /\ (/\ last.op = "update" /\ last.ret.found /\ last.upd = OnlyCompleted(FALSE)
      /\ prev.op = "update" /\ prev.id = last.id /\ prev.upd = OnlyCompleted(TRUE))
       => /\ prev.list[1].completed
          /\ ~last.ret.list[1].completed
          /\ ~FirstWithId(tasks, last.id).completed
          /\ last.writes = 1

C18_Witness ==
  /\ last.op = "update" /\ last.ret.found /\ last.upd = OnlyCompleted(FALSE)
  /\ prev.op = "update" /\ prev.id = last.id /\ prev.upd = OnlyCompleted(TRUE)
  /\ prev.writes = 1 /\ last.writes = 1
  /\ Len(tasks) = 2 /\ tasks[2].id = last.id

\* C19: the record AddTask returns has completed = false; a description or a
\* dueDate that the caller did not give is absent on the record and in the
\* entry written for it.
C19_AddDefaults ==
  last.op = "add"
    => LET t == last.ret.list[1]
       IN /\ ~t.completed
          /\ ~last.upd.description.has
               => /\ ~t.description.has
                  /\ last.ok => ~file.recs[Len(file.recs)].description.has
          /\ ~last.upd.dueDate.has
               => /\ ~t.dueDate.has
                  /\ last.ok => ~file.recs[Len(file.recs)].dueDate.has
          /\ last.ok => file.recs[Len(file.recs)].completed = Some(FALSE)

C19_Witness ==
  /\ last.op = "add" /\ last.ok
  /\ ~last.upd.description.has /\ ~last.upd.dueDate.has
  /\ Len(file.recs) = 3
  /\ file.recs[Len(file.recs)].id = Some(last.ret.list[1].id)
  /\ \E i \in 1..2 : file.recs[i].description.has /\ file.recs[i].dueDate.has

\* C20: an id that DeleteTask removed is never returned by a later AddTask,
\* whether the same instance makes the AddTask or an instance constructed
\* later on the file (everRemoved holds the ids removed by any instance).
C20_NoReuseAcrossRestart ==
  last.op = "add" => last.ret.list[1].id \notin everRemoved

QueryOps == {"getAll", "getById", "getByCompletion"}

\* C21: on one instance the counter never decreases: AddTask raises it by
\* exactly one, and UpdateTask, DeleteTask, GetAllTasks, GetTaskById and
\* GetTasksByCompletion leave it as it was.
C21_CounterMonotonic ==
  /\ nextId >= last.pre.nextId
  /\ last.op = "add" => nextId = last.pre.nextId + 1
  /\ last.op \in {"update", "delete"} \cup QueryOps => nextId = last.pre.nextId

C21_Witness ==
  /\ last.op = "add"
  /\ removed # {}
  /\ Len(last.pre.tasks) >= 1
  /\ \A i \in 1..Len(last.pre.tasks) :
       /\ ~ParseInt(last.pre.tasks[i].id).nan
       /\ ParseInt(last.pre.tasks[i].id).val + 1 < last.pre.nextId

\* C22: in every reachable state the counter is greater than the number that
\* every id of the collection that parses as an integer stands for, and so
\* AddTask mints the counter as it stood before the call: the rescan at its
\* start does not change it.
C22_CounterAboveIds ==
  /\ \A i \in 1..Len(tasks) :
       ~ParseInt(tasks[i].id).nan => ParseInt(tasks[i].id).val < nextId
  /\ last.op = "add" => last.ret.list[1].id = ToString(last.pre.nextId)

C22_Witness ==
  /\ last.op = "add"
  /\ Len(last.pre.tasks) = 2
  /\ \A i \in 1..2 : ~ParseInt(last.pre.tasks[i].id).nan
  /\ last.pre.tasks[1].id = <<"3">>
  /\ last.ret.list[1].id = <<"4">>

\* the number an id counts for in the counter: its integer value, 0 when it
\* does not parse
IdValue(id) == IF ParseInt(id).nan THEN 0 ELSE ParseInt(id).val

\* the greatest element of a non-empty set of integers
Greatest(S) == CHOOSE x \in S : \A y \in S : y <= x

\* C23: after the constructor has loaded a non-empty array, the counter is
\* max(1, M + 1), M being the greatest integer value of the ids of the records
\* loaded, with 0 for an id that does not parse as an integer.
C23_CounterAfterLoad ==
  (last.op = "init" /\ loaded.kind = "json" /\ loaded.recs # <<>>)
    => LET M == Greatest({IdValue(tasks[i].id) : i \in 1..Len(tasks)})
       IN nextId = Greatest({1, M + 1})

C23_Witness ==
  /\ last.op = "init" /\ loaded.kind = "json"
  /\ Len(tasks) = 2
  /\ tasks[1].id = <<"3">> /\ tasks[2].id = <<"a">>
  /\ nextId = 4

\* a is b with some of its elements left out, the others in b's order
RECURSIVE IsSubsequence(_, _)
IsSubsequence(a, b) ==
  IF a = <<>> THEN TRUE
  ELSE IF b = <<>> THEN FALSE
  ELSE \/ (a[1] = b[1] /\ IsSubsequence(Tail(a), Tail(b)))
       \/ IsSubsequence(a, Tail(b))

\* C24: no operation changes the relative order of two records that stay in
\* the collection: AddTask puts the new record after all the others,
\* UpdateTask leaves every record at its position, DeleteTask leaves the
\* remaining records in the order they had.
C24_OrderStable ==
  /\ last.op = "add"
       => /\ Len(tasks) = Len(last.pre.tasks) + 1
          /\ \A i \in 1..Len(last.pre.tasks) : tasks[i] = last.pre.tasks[i]
  /\ last.op = "update"
       => /\ Len(tasks) = Len(last.pre.tasks)
          /\ \A i \in 1..Len(tasks) :
               /\ tasks[i].id = last.pre.tasks[i].id
               /\ i # FindIndex(last.pre.tasks, last.id) => tasks[i] = last.pre.tasks[i]
  /\ last.op = "delete" => IsSubsequence(tasks, last.pre.tasks)

C24_Witness ==
  /\ last.op = "delete"
  /\ Len(last.pre.tasks) = 3
  /\ tasks = <<last.pre.tasks[2], last.pre.tasks[3]>>
  /\ last.pre.tasks[2] # last.pre.tasks[3]

\* C25: UpdateTask changes no field of a record other than the first record
\* whose id is the argument, and changes neither the number of records nor
\* the counter.
C25_UpdateFrame ==
  last.op = "update"
    => /\ Len(tasks) = Len(last.pre.tasks)
       /\ nextId = last.pre.nextId
       /\ \A i \in 1..Len(last.pre.tasks) :
            i # FindIndex(last.pre.tasks, last.id) => tasks[i] = last.pre.tasks[i]

C25_Witness ==
  /\ last.op = "update"
  /\ Len(tasks) = 2
  /\ tasks[1].id = last.id /\ tasks[2].id = last.id
  /\ tasks[1] # last.pre.tasks[1]
  /\ tasks[2] = last.pre.tasks[2]

Ids(ts) == [i \in 1..Len(ts) |-> ts[i].id]

\* C26: no operation changes the id of a record of the collection (the ids
\* after AddTask are the ids before followed by the new one, after UpdateTask
\* the ids before, after DeleteTask the ids before without some), and an
\* UpdateTask that does not mention completed changes no completed flag.
C26_IdAndCompletedKept ==
  /\ last.op = "add"
       => (Len(tasks) = Len(last.pre.tasks) + 1
           /\ SubSeq(Ids(tasks), 1, Len(last.pre.tasks)) = Ids(last.pre.tasks))
  /\ last.op = "update" => Ids(tasks) = Ids(last.pre.tasks)
  /\ last.op = "delete" => IsSubsequence(Ids(tasks), Ids(last.pre.tasks))
  /\ (last.op = "update" /\ ~last.upd.completed.m)
       => /\ Len(tasks) = Len(last.pre.tasks)
          /\ \A i \in 1..Len(tasks) : tasks[i].completed = last.pre.tasks[i].completed

C26_Witness ==
  /\ last.op = "update" /\ ~last.upd.completed.m
  /\ last.ret.found /\ last.ret.list[1].completed
  /\ last.ret.list[1].title # FirstWithId(last.pre.tasks, last.id).title
  /\ last.ret.list[1].dueDate # FirstWithId(last.pre.tasks, last.id).dueDate
  /\ last.ret.list[1].id = last.id

\* the update {dueDate: new Date(ms)}
OnlyDueDate(ms) == Upd(NmS, NmS, Mention(Some(ms)), NmB)

\* C27: UpdateTask compares due dates by timestamp: an update giving the
\* timestamp the record has changes nothing and writes nothing (when it gives
\* no other field); an update giving another timestamp, also one of the same
\* calendar day, sets the dueDate and writes once.
C27_DueDateByTimestamp ==
  (last.op = "update" /\ last.ret.found /\ last.upd.dueDate.m /\ last.upd.dueDate.has)
    => LET old == FirstWithId(last.pre.tasks, last.id)
           new == last.ret.list[1]
       IN /\ (old.dueDate = Some(last.upd.dueDate.v)
               /\ last.upd = OnlyDueDate(last.upd.dueDate.v))
               => (last.writes = 0 /\ new = old /\ tasks = last.pre.tasks)
          /\ old.dueDate # Some(last.upd.dueDate.v)
               => (last.writes = 1 /\ new.dueDate = Some(last.upd.dueDate.v)
                   /\ FirstWithId(tasks, last.id).dueDate = Some(last.upd.dueDate.v))

C27_Witness ==
  /\ last.op = "update" /\ last.ret.found
  /\ last.upd = OnlyDueDate(Day0Later)
  /\ LET old == FirstWithId(last.pre.tasks, last.id)
     IN /\ old.dueDate.has /\ old.dueDate.v # Day0Later
        /\ old.dueDate.v \div MsPerDay = Day0Later \div MsPerDay
  /\ last.writes = 1

\* C28: GetAllTasks, GetTaskById and GetTasksByCompletion write nothing and
\* leave collection, counter and file as they were; GetAllTasks returns the
\* collection, and GetTaskById the first record in collection order whose id
\* is the argument, or not-found when there is none.
C28_QueriesChangeNothing ==
  last.op \in QueryOps
    => /\ last.writes = 0
       /\ FrameUnchanged
       /\ last.op = "getAll" => last.ret.list = tasks
       /\ last.op = "getById"
            => IF HasId(tasks, last.id)
               THEN last.ret.found /\ last.ret.list = <<FirstWithId(tasks, last.id)>>
               ELSE ~last.ret.found /\ last.ret.list = <<>>

C28_Witness ==
  /\ last.op = "getById"
  /\ Len(tasks) >= 2
  /\ tasks[1].id = last.id /\ tasks[2].id = last.id
  /\ tasks[1] # tasks[2]
  /\ last.ret.list = <<tasks[1]>>

\* C29: the constructor writes nothing whatever it finds (no file, a blank
\* file, a valid one, one it cannot load, entries it mints ids for): the file
\* is as it was before, and stays so over the calls that change nothing.
C29_InitializeWritesNothing ==
  /\ last.op = "init"
       => /\ last.writes = 0
          /\ file = last.pre.file
          /\ file = loaded
  /\ (last.op \in {"update", "delete"} /\ tasks = last.pre.tasks)
       => file = last.pre.file

C29_Witness ==
  /\ last.op = "init"
  /\ nops > 0
  /\ loaded.kind = "json" /\ Len(loaded.recs) = 2
  /\ ~loaded.recs[1].id.has
  /\ tasks[1].id = <<"1">>
  /\ file = loaded

\* the records of the collection ts that the collection us does not have
NotHeld(ts, us) ==
  {i \in 1..Len(ts) : \A j \in 1..Len(us) : us[j] # ts[i]}

\* C30: with two instances on one file the last writer wins. After a write
\* that succeeds the file is the serialization of the writing instance's
\* collection and of nothing else, so no record that only the other instance
\* holds is in the file; the call returns what it returns with one instance
\* and nothing is logged.
C30_LastWriterWins ==
  (other.open /\ last.op \in {"add", "update", "delete"} /\ last.writes = 1 /\ last.ok)
    => /\ file = Serialize(tasks)
       /\ \A i \in NotHeld(other.tasks, tasks) :
            \A k \in 1..Len(file.recs) : file.recs[k] # SerializeTask(other.tasks[i])
       /\ last.ret.found
       /\ last.log = <<>>

C30_Witness ==
  /\ other.open
  /\ last.op = "add" /\ last.writes = 1 /\ last.ok
  /\ Len(other.minted) = 1
  /\ \E i \in NotHeld(other.tasks, tasks) :
       /\ other.tasks[i].id = other.minted[1]
       /\ \E k \in 1..Len(last.pre.file.recs) :
            last.pre.file.recs[k] = SerializeTask(other.tasks[i])
       /\ \A k \in 1..Len(file.recs) : file.recs[k] # SerializeTask(other.tasks[i])

\* every entry of the file f has an id, and no two entries have the same
DistinctStoredIds(f) ==
  /\ f.kind = "json"
  /\ \A i \in 1..Len(f.recs) : f.recs[i].id.has
  /\ \A i, j \in 1..Len(f.recs) : i # j => f.recs[i].id # f.recs[j].id

\* C31: when every entry of the file the instance loaded has an id and these
\* ids are pairwise distinct, the ids of the collection are pairwise distinct
\* after the constructor and after every AddTask, UpdateTask and DeleteTask,
\* and the id AddTask returns is the id of no record held before the call.
C31_DistinctIdsKept ==
  DistinctStoredIds(loaded)
    => /\ UniqueIds(tasks)
       /\ last.op = "add" => ~HasId(last.pre.tasks, last.ret.list[1].id)

\* how many of the first i entries of the file f have no id
Unnamed(f, i) == Cardinality({j \in 1..i : ~f.recs[j].id.has})

\* C32: the constructor gives the k-th entry of the file that has no id the
\* id k, written in decimal, whatever ids the other entries have.
C32_KthUnnamedGetsK ==
  (last.op = "init" /\ loaded.kind = "json")
    => \A i \in 1..Len(loaded.recs) :
         ~loaded.recs[i].id.has
           => /\ Len(tasks) >= i
              /\ tasks[i].id = ToString(Unnamed(loaded, i))

\* C33: when DeleteTask(id) has returned, whatever it returned and also when
\* several records had the id, no record of the collection has the id and
\* GetTaskById(id) finds none.
C33_DeletedIdIsGone ==
  last.op = "delete"
    => /\ ~HasId(tasks, last.id)
       /\ GetTaskById(tasks, last.id) = <<>>

C33_Witness ==
  /\ last.op = "delete"
  /\ last.ret.found
  /\ Len(last.pre.tasks) = 2
  /\ last.pre.tasks[1].id = last.id /\ last.pre.tasks[2].id = last.id
  /\ tasks = <<>>

\* apart from the title, the update u changes no field of the record t
RestKeeps(u, t) ==
  /\ u.description.m => ValueOf(u.description) = t.description
  /\ u.dueDate.m => ValueOf(u.dueDate) = t.dueDate
  /\ u.completed.has => u.completed.v = t.completed

\* C34: an UpdateTask that mentions the title with the value undefined leaves
\* the title of the record as it was and, when the rest of the update changes
\* no field, writes nothing and changes nothing; no UpdateTask leaves a record
\* that had a title without one, while description and due date can be
\* cleared in this way.
C34_TitleNeverCleared ==
  /\ (/\ last.op = "update" /\ HasId(last.pre.tasks, last.id)
      /\ last.upd.title.m /\ ~last.upd.title.has)
       => /\ FirstWithId(tasks, last.id).title = FirstWithId(last.pre.tasks, last.id).title
          /\ RestKeeps(last.upd, FirstWithId(last.pre.tasks, last.id))
               => (last.writes = 0 /\ FrameUnchanged)
  /\ last.op = "update"
       => /\ Len(tasks) = Len(last.pre.tasks)
          /\ \A i \in 1..Len(tasks) : last.pre.tasks[i].title.has => tasks[i].title.has

C34_Witness ==
  /\ last.op = "update" /\ HasId(last.pre.tasks, last.id)
  /\ last.upd.title.m /\ ~last.upd.title.has
  /\ last.upd.description.m /\ ~last.upd.description.has
  /\ FirstWithId(last.pre.tasks, last.id).title.has
  /\ FirstWithId(last.pre.tasks, last.id).description.has
  /\ FirstWithId(tasks, last.id).title = FirstWithId(last.pre.tasks, last.id).title
  /\ ~FirstWithId(tasks, last.id).description.has
  /\ last.writes = 1

\* C35: after a write that failed the file stays what it was before that
\* call, and the collection the one that was to be written, through every
\* query, every update that changes nothing and every update or delete of an
\* id that no record has; the next call whose write succeeds starts from that
\* collection and leaves the file holding the whole collection, the change
\* whose write had failed included.
C35_StaleUntilNextWrite ==
  /\ failed.pending
       => /\ file = failed.file
          /\ tasks = failed.tasks
          /\ (last.writes = 0 => FrameUnchanged)
  /\ failed.healed
       => /\ last.pre.file = failed.file
          /\ last.pre.tasks = failed.tasks
          /\ file = Serialize(tasks)
          /\ last.op = "add" => tasks = Append(failed.tasks, last.ret.list[1])

C35_Witness ==
  /\ failed.healed /\ failed.quiet
  /\ last.op = "add"
  /\ Len(failed.tasks) = 1
  /\ failed.file = NoFile
  /\ file = Serialize(tasks) /\ Len(file.recs) = 2
  /\ file.recs[1] = SerializeTask(failed.tasks[1])

====
